---- MODULE Spec2Model ----
(***************************************************************************)
(* A model of jhsiao.tests: the prefix-convention test runner (simple.py), *)
(* the registry-based suite (tests.py) and the micro-benchmark runner      *)
(* (bench.py).  Each program is sequential; every program gets its own     *)
(* specification over its own variables, the others' variables stay idle.  *)
(*                                                                         *)
(* Strings the code parses or compares by prefix are sequences of          *)
(* one-character strings.  A test or a fragment either returns or raises   *)
(* an Exception subclass; exits that are no Exception (SystemExit,         *)
(* KeyboardInterrupt) are outside the model.                                *)
(***************************************************************************)
EXTENDS Integers, Sequences, FiniteSets, TLC

\* ------------------------------------------------------------------ bounds
MaxMembers == 3   \* members of a loaded unit
MaxTargets == 2   \* positional targets on the simple.py command line

\* ------------------------------------------------------------ string tools
\* The characters of the model in code-point order (',' < ':' < '_' < letters).
Alphabet == <<",", ":", "_", "a", "b", "m", "t", "x">>

Ord(c) == CHOOSE i \in 1..Len(Alphabet) : Alphabet[i] = c

\* Python's str < str: lexicographic by code point, a proper prefix is smaller.
RECURSIVE StrLess(_, _)
StrLess(s, t) ==
    IF s = <<>> THEN t # <<>>
    ELSE IF t = <<>> THEN FALSE
    ELSE IF Head(s) = Head(t) THEN StrLess(Tail(s), Tail(t))
    ELSE Ord(Head(s)) < Ord(Head(t))

SeqToSet(s) == {s[i] : i \in 1..Len(s)}

\* str.startswith
StartsWith(k, prefix) ==
    /\ Len(k) >= Len(prefix)
    /\ SubSeq(k, 1, Len(prefix)) = prefix

\* `sep in s`
Contains(s, sep) == \E i \in 1..Len(s) : s[i] = sep

\* Index of the first sep in s (s contains sep).
FirstIndex(s, sep) ==
    CHOOSE i \in 1..Len(s) : s[i] = sep /\ \A j \in 1..(i-1) : s[j] # sep

\* s.split(sep, 1) for an s that contains sep: <<head, rest>>.
Split1(s, sep) ==
    LET i == FirstIndex(s, sep)
    IN  <<SubSeq(s, 1, i-1), SubSeq(s, i+1, Len(s))>>

\* s.split(sep): the pieces between separators, empty pieces kept.
RECURSIVE SplitAll(_, _)
SplitAll(s, sep) ==
    IF ~Contains(s, sep) THEN <<s>>
    ELSE LET p == Split1(s, sep) IN <<p[1]>> \o SplitAll(p[2], sep)

\* sorted(names): ascending sequence of a finite set of strings.
RECURSIVE SortedNames(_)
SortedNames(S) ==
    IF S = {} THEN <<>>
    ELSE LET least == CHOOSE x \in S : \A y \in S \ {x} : StrLess(x, y)
         IN  <<least>> \o SortedNames(S \ {least})

\* ------------------------------------------------------- simple.py: inputs
\* Member names a unit may declare: test_a-like names t_a, t_b, ta and x.
MemberNames == { <<"t", "_", "a">>, <<"t", "_", "b">>, <<"t", "a">>, <<"x">> }

\* --prefix values.
Prefixes == { <<"t", "_">>, <<"t">> }

\* Positional targets: module[:test1,test2,...] on the one module m.
TargetArgs == { <<"m">>, <<"m", ":", "a">>, <<"m", ":", "a", ",", "b">> }

Outcomes == {"pass", "raise"}

SeqsUpTo(S, n) == UNION { [1..k -> S] : k \in 0..n }

VARIABLES
    \* ---- simple.py
    unit,        \* the loaded module: its member names in declaration order
    body,        \* what calling each member does: "pass" or "raise"
    args,        \* parsed command line: tests, all, prefix, list
    spc,         \* position in the __main__ block / run()
    ti,          \* index of the target the for loop of __main__ is at
    targets,     \* run(): the name filter (a set; {} when none was given)
    keys,        \* run(): dir(item)
    ki,          \* run(): index of the key the for loop is at
    ntried,      \* run(): ntried
    npass,       \* run(): npass
    failed,      \* run(): failed
    invoked,     \* members run() has called in this call, in call order
    runs,        \* what each finished call of run() returned: <<failed, ntried>>
    grand_total, \* __main__: grand_total
    failures,    \* __main__: failures, as <<module, failed>> pairs
    total,       \* __main__: the printed "Total passed" pair, or <<>>
    exit,        \* how the process ended: "running", "normal", or the error
    \* ---- simple._import
    sys_path,    \* sys.path
    path0,       \* sys.path as it was when _import was called
    fs,          \* what the target is on disk: "file", "dir" or "none"
    iname,       \* _import's argument
    dname,       \* _import: dname
    ipc,         \* position in _import
    iresult,     \* how _import ended: "none", "module", or the error raised
    \* ---- tests.py
    choices,     \* self.sub.choices: the registered tests, in registration order
    alltests,    \* self._alltests
    allflag,     \* args.all of the `all` command
    tpc,         \* position in the registry's life: registering, all(), ended
    tidx,        \* all(): index into _alltests
    success,     \* all(): success
    tinvoked,    \* the calls all() made: <<testname, argv>>, in call order
    summary,     \* the printed <<passed, total>>, or <<>>
    lastcall,    \* the arguments of the last Tests.__call__
    \* ---- bench.py
    scripts,     \* run(): kwargs, the entries in declaration (dict) order
    eqfn,        \* run(): eq, "none" for None
    nosort,      \* args.nosort
    repeat,      \* args.repeat
    bpc,         \* position in run()
    sets,        \* run(): sets, as check_values returned it
    outputs,     \* run(): outputs
    invalid,     \* run(): invalid
    bi,          \* index of the entry the timing loop is at
    printout,    \* run(): printout
    errored,     \* run(): errored, as <<name, traceback>> in insertion order
    out,         \* the table rows written to stdout, each with its line end
    errout,      \* the "Errored:" report written to stdout
    berror,      \* the exception run() raised, "none" when none
    \* ---- bench.pairwise_ttest
    tresults,    \* run(): results, the timings kept for the t-tests, in order
    ttestarg,    \* args.ttest: <<>> or <<significance>>
    pval,        \* the p-value scipy gives each pair <<i, j>>, i < j
    significance, \* pairwise_ttest: significance
    means,       \* pairwise_ttest: means, as fractions <<sum, count>>
    pmatrix,     \* pairwise_ttest: pmatrix
    cells,       \* the matrix as printed: one sequence of cells per row
    tcalls,      \* the pairs ttest_ind was called on, in call order
    qi,          \* pairwise_ttest: i, the row the loop is at
    qpc          \* position in pairwise_ttest, or the exception it raised

simpleVars == <<unit, body, args, spc, ti, targets, keys, ki, ntried, npass,
                failed, invoked, runs, grand_total, failures, total, exit>>

importVars == <<sys_path, path0, fs, iname, dname, ipc, iresult>>

testsVars == <<choices, alltests, allflag, tpc, tidx, success, tinvoked, summary,
               lastcall>>

benchVars == <<scripts, eqfn, nosort, repeat, bpc, sets, outputs, invalid, bi,
               printout, errored, out, errout, berror>>

ttestVars == <<tresults, ttestarg, pval, significance, means, pmatrix, cells,
               tcalls, qi, qpc>>

vars == <<simpleVars, importVars, testsVars, benchVars, ttestVars>>

\* A program that is not running: its variables at rest.
IdleSimple ==
    /\ unit = <<>> /\ body = <<>> /\ args = <<>> /\ spc = "idle" /\ ti = 1
    /\ targets = {} /\ keys = <<>> /\ ki = 1 /\ ntried = 0 /\ npass = 0
    /\ failed = <<>> /\ invoked = <<>> /\ runs = <<>> /\ grand_total = 0
    /\ failures = <<>> /\ total = <<>> /\ exit = "idle"

IdleImport ==
    /\ sys_path = <<>> /\ path0 = <<>> /\ fs = "none" /\ iname = <<>>
    /\ dname = <<>> /\ ipc = "idle" /\ iresult = "none"

IdleTests ==
    /\ choices = <<>> /\ alltests = <<>> /\ allflag = FALSE /\ tpc = "idle"
    /\ tidx = 1 /\ success = 0 /\ tinvoked = <<>> /\ summary = <<>>
    /\ lastcall = [item |-> "none", itemorname |-> "", name |-> ""]

IdleBench ==
    /\ scripts = <<>> /\ eqfn = "none" /\ nosort = FALSE /\ repeat = 1
    /\ bpc = "idle" /\ sets = <<>> /\ outputs = <<>> /\ invalid = <<>>
    /\ bi = 1 /\ printout = <<>> /\ errored = <<>> /\ out = <<>>
    /\ errout = <<>> /\ berror = "none"

IdleTtest ==
    /\ tresults = <<>> /\ ttestarg = <<>> /\ pval = <<>> /\ significance = 0
    /\ means = <<>> /\ pmatrix = <<>> /\ cells = <<>> /\ tcalls = <<>>
    /\ qi = 0 /\ qpc = "idle"

\* ----------------------------------------------------------- simple.run
\* dir(item): the member names, sorted.
DirDeclared(item) == item

Dir(item) == SortedNames(SeqToSet(item))

\* simple.py:50-54: the filter of module[:name1,name2].
ParseTargets(name) ==
    IF Contains(name, ":")
    THEN SeqToSet(SplitAll(Split1(name, ":")[2], ","))
    ELSE {}

\* simple.py:66
TName(k, prefix) == SubSeq(k, Len(prefix) + 1, Len(k))

\* simple.py:70
SelectedOnlyNamed(tgts, tname) == tname \in tgts

Selected(tgts, tname) == tgts = {} \/ tname \in tgts

\* simple.py:78-82: what an exception of a test does to the loop.
OnExceptionAlwaysRaise(runall) == "raise"

OnExceptionAlwaysContinue(runall) == "continue"

OnException(runall) == IF runall THEN "continue" ELSE "raise"

InitSimple ==
    /\ unit \in { s \in SeqsUpTo(MemberNames, MaxMembers) :
                    \A i, j \in 1..Len(s) : i # j => s[i] # s[j] }
    /\ body \in [SeqToSet(unit) -> Outcomes]
    /\ args \in [ tests : SeqsUpTo(TargetArgs, MaxTargets) \ {<<>>},
                  all : BOOLEAN, prefix : Prefixes, list : BOOLEAN ]
    /\ spc = "main"
    /\ ti = 1
    /\ targets = {}
    /\ keys = <<>>
    /\ ki = 1
    /\ ntried = 0
    /\ npass = 0
    /\ failed = <<>>
    /\ invoked = <<>>
    /\ runs = <<>>
    /\ grand_total = 0
    /\ failures = <<>>
    /\ total = <<>>
    /\ exit = "running"
    /\ IdleImport
    /\ IdleTests
    /\ IdleBench
    /\ IdleTtest

\* simple.py:113 calling run, simple.py:50-62: parse the target, import, reset.
RunCall ==
    /\ spc = "main"
    /\ ti <= Len(args.tests)
    /\ targets' = ParseTargets(args.tests[ti])
    /\ keys' = Dir(unit)
    /\ ki' = 1
    /\ ntried' = 0
    /\ npass' = 0
    /\ failed' = <<>>
    /\ invoked' = <<>>
    /\ spc' = "loop"
    /\ UNCHANGED <<unit, body, args, ti, runs, grand_total, failures, total,
                   exit>>
    /\ UNCHANGED <<importVars, testsVars, benchVars, ttestVars>>

\* simple.py:63-87: one iteration of `for k in dir(item)`.
RunIter ==
    /\ spc = "loop"
    /\ ki <= Len(keys)
    /\ LET k == keys[ki]
           tname == TName(k, args.prefix)
       IN  IF ~StartsWith(k, args.prefix) \/ args.list
              \/ ~Selected(targets, tname)
           THEN /\ ki' = ki + 1
                /\ UNCHANGED <<ntried, npass, failed, invoked, spc, exit>>
           ELSE /\ ntried' = ntried + 1
                /\ invoked' = Append(invoked, k)
                /\ IF body[k] = "raise"
                   THEN IF OnException(args.all) = "continue"
                        THEN /\ failed' = Append(failed, tname)
                             /\ ki' = ki + 1
                             /\ UNCHANGED <<npass, spc, exit>>
                        ELSE /\ spc' = "raised"
                             /\ exit' = "Exception"
                             /\ UNCHANGED <<npass, failed, ki>>
                   ELSE /\ npass' = npass + 1
                        /\ ki' = ki + 1
                        /\ UNCHANGED <<failed, spc, exit>>
    /\ UNCHANGED <<unit, body, args, ti, targets, keys, runs, grand_total,
                   failures, total>>
    /\ UNCHANGED <<importVars, testsVars, benchVars, ttestVars>>

\* simple.py:88-96: the loop is over; print the module summary and return.
RunReturn ==
    /\ spc = "loop"
    /\ ki > Len(keys)
    /\ spc' = "returned"
    /\ runs' = Append(runs, <<failed, ntried>>)
    /\ UNCHANGED <<unit, body, args, ti, targets, keys, ki, ntried, npass,
                   failed, invoked, grand_total, failures, total, exit>>
    /\ UNCHANGED <<importVars, testsVars, benchVars, ttestVars>>

\* simple.py:113-116: take run's result, go to the next target.
MainAccumulate ==
    /\ spc = "returned"
    /\ grand_total' = grand_total + ntried
    /\ failures' = IF failed # <<>>
                   THEN Append(failures,
                               <<IF Contains(args.tests[ti], ":")
                                 THEN Split1(args.tests[ti], ":")[1]
                                 ELSE args.tests[ti],
                                 failed>>)
                   ELSE failures
    /\ ti' = ti + 1
    /\ spc' = "main"
    /\ UNCHANGED <<unit, body, args, targets, keys, ki, ntried, npass, failed,
                   invoked, runs, total, exit>>
    /\ UNCHANGED <<importVars, testsVars, benchVars, ttestVars>>

RECURSIVE SumLens(_)
SumLens(fl) == IF fl = <<>> THEN 0 ELSE Len(Head(fl)[2]) + SumLens(Tail(fl))

\* simple.py:117-128: the grand total, printed for more than one target.
\* 100 * passed / grand_total divides by zero when nothing was attempted.
MainSummary ==
    /\ spc = "main"
    /\ ti > Len(args.tests)
    /\ IF Len(args.tests) > 1
       THEN IF grand_total = 0
            THEN /\ exit' = "ZeroDivisionError"
                 /\ total' = <<>>
            ELSE /\ exit' = "normal"
                 /\ total' = <<grand_total - SumLens(failures), grand_total>>
       ELSE /\ exit' = "normal"
            /\ total' = <<>>
    /\ spc' = "exit"
    /\ UNCHANGED <<unit, body, args, ti, targets, keys, ki, ntried, npass,
                   failed, invoked, runs, grand_total, failures>>
    /\ UNCHANGED <<importVars, testsVars, benchVars, ttestVars>>

NextSimple ==
    \/ RunCall
    \/ RunIter
    \/ RunReturn
    \/ MainAccumulate
    \/ MainSummary

SpecSimple == InitSimple /\ [][NextSimple]_vars

\* --------------------------------------------------------- simple._import
MaxPath == 2      \* entries of sys.path before the call

\* Directories sys.path may name: '' (the working directory), d and l.
DirNames == { <<>>, <<"d">>, <<"l">> }

\* Arguments of _import: d/m, d/m.p, d/ and m.
ImportNames == { <<"d", "/", "m">>, <<"d", "/", "m", ".", "p">>, <<"d", "/">>,
                 <<"m">> }

\* Index of the last sep in s, 0 when there is none.
LastIndex(s, sep) ==
    IF Contains(s, sep)
    THEN CHOOSE i \in 1..Len(s) : s[i] = sep /\ \A j \in (i+1)..Len(s) : s[j] # sep
    ELSE 0

\* s.rstrip('/')
RECURSIVE RStripSep(_)
RStripSep(s) ==
    IF s # <<>> /\ s[Len(s)] = "/" THEN RStripSep(SubSeq(s, 1, Len(s) - 1)) ELSE s

\* os.path.basename: what follows the last separator.
Basename(p) == SubSeq(p, LastIndex(p, "/") + 1, Len(p))

\* os.path.dirname: what precedes the last separator, trailing separators
\* stripped unless it is all separators.
Dirname(p) ==
    LET head == SubSeq(p, 1, LastIndex(p, "/"))
    IN  IF RStripSep(head) = <<>> THEN head ELSE RStripSep(head)

\* os.path.splitext(p)[0] for a p without separators.
SplitextRoot(p) ==
    LET i == LastIndex(p, ".")
    IN  IF i > 1 THEN SubSeq(p, 1, i - 1) ELSE p

\* simple.py:20-25: the name to import and the directory to add.
ImportBasename(name) ==
    IF Basename(name) = <<>> THEN Basename(Basename(name)) ELSE Basename(name)

ImportDname(name) ==
    IF Basename(name) = <<>> THEN Dirname(Basename(name)) ELSE Dirname(name)

\* simple.py:26: sys.path.insert(0, dname)
PathInsert(path, d) == <<d>> \o path

\* list.remove(d): drop the first occurrence; simple.py:32-35 swallows the
\* ValueError of a missing one.
PathRemove(path, d) ==
    IF \E i \in 1..Len(path) : path[i] = d
    THEN LET i == CHOOSE i \in 1..Len(path) :
                     path[i] = d /\ \A j \in 1..(i-1) : path[j] # d
         IN  SubSeq(path, 1, i - 1) \o SubSeq(path, i + 1, Len(path))
    ELSE path

\* simple.py:31-35: sys.path after the try statement, whatever its outcome.
FinallyOnSuccessOnly(path, d, outcome) ==
    IF outcome = "module" THEN PathRemove(path, d) ELSE path

Finally(path, d, outcome) == PathRemove(path, d)

\* What import_module(modname) can do: import_module('') raises ValueError.
ImportOutcomes(modname) ==
    IF modname = <<>> THEN {"ValueError"} ELSE {"module", "ImportError", "Error"}

InitImport ==
    /\ sys_path \in SeqsUpTo(DirNames, MaxPath)
    /\ path0 = sys_path
    /\ iname \in ImportNames
    /\ fs \in IF iname[Len(iname)] = "/" THEN {"dir", "none"}
              ELSE {"file", "dir", "none"}
    /\ dname = <<>>
    /\ ipc = "call"
    /\ iresult = "none"
    /\ IdleSimple
    /\ IdleTests
    /\ IdleBench
    /\ IdleTtest

\* simple.py:19-26: a file or directory: put its directory first on sys.path.
ImportInsert ==
    /\ ipc = "call"
    /\ fs \in {"file", "dir"}
    /\ dname' = ImportDname(iname)
    /\ sys_path' = PathInsert(sys_path, ImportDname(iname))
    /\ ipc' = "attempt"
    /\ UNCHANGED <<path0, fs, iname, iresult>>
    /\ UNCHANGED <<simpleVars, testsVars, benchVars, ttestVars>>

\* simple.py:27-35: the import attempt and its finally clause.
ImportAttempt ==
    /\ ipc = "attempt"
    /\ \E outcome \in ImportOutcomes(SplitextRoot(ImportBasename(iname))) :
          /\ sys_path' = Finally(sys_path, dname, outcome)
          /\ IF outcome = "ImportError"
             THEN /\ ipc' = "fallback"
                  /\ UNCHANGED iresult
             ELSE /\ ipc' = "done"
                  /\ iresult' = outcome
    /\ UNCHANGED <<path0, fs, iname, dname>>
    /\ UNCHANGED <<simpleVars, testsVars, benchVars, ttestVars>>

\* simple.py:36: import_module(name), for a name that is no path and after
\* an ImportError of the attempt.
ImportModule ==
    /\ \/ ipc = "fallback"
       \/ ipc = "call" /\ fs = "none"
    /\ \E outcome \in ImportOutcomes(iname) :
          /\ iresult' = outcome
          /\ ipc' = "done"
    /\ UNCHANGED <<sys_path, path0, fs, iname, dname>>
    /\ UNCHANGED <<simpleVars, testsVars, benchVars, ttestVars>>

NextImport ==
    \/ ImportInsert
    \/ ImportAttempt
    \/ ImportModule

SpecImport == InitImport /\ [][NextImport]_vars

\* ------------------------------------------------------- tests.py: Tests
MaxTests == 3     \* tests registered with one registry

\* Names of test classes.
TestNames == {"t1", "t2", "t3", "t4"}

\* A registered test: the sub-parser of its name, whose _action default is
\* the constructed test; skip is the instance's skip attribute and outcome
\* what calling the instance does.
TestEntries == [name : TestNames, skip : BOOLEAN, outcome : Outcomes]

\* tests.py:100: a constructed test joins _alltests unless flagged skip.
RegisterInAllAlways(skip) == TRUE

RegisterInAll(skip) == ~skip

\* tests.py:116-120: what an exception of a test does to all().
AllOnException(all) == IF all THEN "continue" ELSE "raise"

\* tests.py:111: self.sub.choices[testname]
Choice(testname) ==
    choices[CHOOSE i \in 1..Len(choices) : choices[i].name = testname]

\* tests.py:114: p.parse_known_args([])
EmptyArgv == <<>>

InitTests ==
    /\ choices = <<>>
    /\ alltests = <<>>
    /\ allflag = FALSE
    /\ tpc = "register"
    /\ tidx = 1
    /\ success = 0
    /\ tinvoked = <<>>
    /\ summary = <<>>
    /\ lastcall = [item |-> "none", itemorname |-> "", name |-> ""]
    /\ IdleSimple
    /\ IdleImport
    /\ IdleBench
    /\ IdleTtest

\* Python's None as the name argument.
NoName == ""

\* tests.py:95: name = name or itemorname.__name__
RegName(name, clsname) == IF name # NoName THEN name ELSE clsname

\* The calls Tests.__call__(cls, name) that register under the name n.
CallsNaming(n) ==
    { [item |-> "class", itemorname |-> c, name |-> g] :
        <<c, g>> \in { cg \in TestNames \X (TestNames \cup {NoName}) :
                         RegName(cg[2], cg[1]) = n } }

\* tests.py:87-101 with a callable: Tests.__call__ registers a test class
\* under a name no other test has.
Register ==
    /\ tpc = "register"
    /\ Len(choices) < MaxTests
    /\ \E e \in TestEntries :
          /\ \A i \in 1..Len(choices) : choices[i].name # e.name
          /\ lastcall' \in CallsNaming(e.name)
          /\ choices' = Append(choices, e)
          /\ alltests' = IF RegisterInAll(e.skip)
                         THEN Append(alltests, e.name)
                         ELSE alltests
    /\ UNCHANGED <<allflag, tpc, tidx, success, tinvoked, summary>>
    /\ UNCHANGED <<simpleVars, importVars, benchVars, ttestVars>>

\* tests.py:93-94 with a first argument that is not callable (a name, or
\* None): `partial` is no name of the module (tests.py:9-12 import argparse,
\* os, sys and traceback only), so the return statement raises NameError.
RegisterByName ==
    /\ tpc = "register"
    /\ \E itemorname \in TestNames \cup {NoName}, name \in TestNames \cup {NoName} :
          lastcall' = [item |-> "name", itemorname |-> itemorname, name |-> name]
    /\ tpc' = "NameError"
    /\ UNCHANGED <<choices, alltests, allflag, tidx, success, tinvoked, summary>>
    /\ UNCHANGED <<simpleVars, importVars, benchVars, ttestVars>>

\* tests.py:125-132, 107-109: run() dispatches to all(), with or without --all.
AllCall ==
    /\ tpc = "register"
    /\ allflag' \in BOOLEAN
    /\ tpc' = "all"
    /\ tidx' = 1
    /\ success' = 0
    /\ UNCHANGED <<choices, alltests, tinvoked, summary, lastcall>>
    /\ UNCHANGED <<simpleVars, importVars, benchVars, ttestVars>>

\* tests.py:110-120: one iteration of `for testname in self._alltests`.
AllIter ==
    /\ tpc = "all"
    /\ tidx <= Len(alltests)
    /\ LET testname == alltests[tidx]
           p == Choice(testname)
       IN  /\ tinvoked' = Append(tinvoked, <<testname, EmptyArgv>>)
           /\ IF p.outcome = "pass"
              THEN /\ success' = success + 1
                   /\ tidx' = tidx + 1
                   /\ UNCHANGED tpc
              ELSE IF AllOnException(allflag) = "continue"
              THEN /\ tidx' = tidx + 1
                   /\ UNCHANGED <<success, tpc>>
              ELSE /\ tpc' = "raised"
                   /\ UNCHANGED <<success, tidx>>
    /\ UNCHANGED <<choices, alltests, allflag, summary, lastcall>>
    /\ UNCHANGED <<simpleVars, importVars, benchVars, ttestVars>>

\* tests.py:121-123: the summary line.
AllSummary ==
    /\ tpc = "all"
    /\ tidx > Len(alltests)
    /\ summary' = <<success, Len(alltests)>>
    /\ tpc' = "done"
    /\ UNCHANGED <<choices, alltests, allflag, tidx, success, tinvoked,
                   lastcall>>
    /\ UNCHANGED <<simpleVars, importVars, benchVars, ttestVars>>

NextTests ==
    \/ Register
    \/ RegisterByName
    \/ AllCall
    \/ AllIter
    \/ AllSummary

SpecTests == InitTests /\ [][NextTests]_vars

\* ------------------------------------------------------------- bench.py
MaxEntries == 3   \* entries of the scripts mapping
MaxSample == 2    \* a timing sample is one of 1..MaxSample

\* Names of the entries, by position in the mapping.
BenchNames == <<"a", "b", "c", "d", "e">>

\* Values a fragment may leave in the checked variable.
CheckedValues == {1, 2, 3}

\* Equality predicates a caller may pass as eq.
EqPreds == {"eq", "close", "parity"}

\* args.repeat values.
Repeats == {1, 2}

\* Exceptions a fragment may raise while it is timed.
TimingErrors == {"ValueError", "TypeError"}

\* Python's None where the code stores it among integers.
NoneVal == -1

\* bench.py:92: eq(a, b) for the predicates of the model: operator.eq,
\* equal within a tolerance of 1, equal modulo 2.
EqApply(eq, a, b) ==
    CASE eq = "eq" -> a = b
      [] eq = "close" -> a - b \in {-1, 0, 1}
      [] eq = "parity" -> a % 2 = b % 2

\* bench.py:85, 90: `key is None`
IsNone(key) == key = NoneVal

\* bench.py:93: valid[jdx] = None (jdx counts from 1 here).
MarkTakenNoop(valid, jdx) == valid

MarkTaken(valid, jdx) == [valid EXCEPT ![jdx] = NoneVal]

\* A dict with one more key: d[key] = value.
DictSet(d, key, value) ==
    [k \in DOMAIN d \cup {key} |-> IF k = key THEN value ELSE d[k]]

\* bench.py:66-81: names, results, valid and invalid after the first loop.
\* Entry i of the mapping has index i-1.
CvNames(ss) == [i \in 0..(Len(ss) - 1) |-> ss[i + 1].name]

CvResults(ss) ==
    [i \in 0..(Len(ss) - 1) |->
        IF ss[i + 1].defined THEN ss[i + 1].val ELSE NoneVal]

RECURSIVE CvValid(_, _)
CvValid(ss, i) ==
    IF i >= Len(ss) THEN <<>>
    ELSE (IF ss[i + 1].defined THEN <<i>> ELSE <<>>) \o CvValid(ss, i + 1)

RECURSIVE CvInvalid(_, _)
CvInvalid(ss, i) ==
    IF i >= Len(ss) THEN <<>>
    ELSE (IF ss[i + 1].defined THEN <<>> ELSE <<ss[i + 1].name>>)
         \o CvInvalid(ss, i + 1)

\* bench.py:88-94: the inner loop from position jdx on; gives <<valid, sets[key]>>.
RECURSIVE CvInner(_, _, _, _, _, _, _)
CvInner(valid, members, key, jdx, results, names, eq) ==
    IF jdx > Len(valid) THEN <<valid, members>>
    ELSE LET j == valid[jdx]
         IN  IF IsNone(j)
             THEN CvInner(valid, members, key, jdx + 1, results, names, eq)
             ELSE IF EqApply(eq, results[key], results[j])
             THEN CvInner(MarkTaken(valid, jdx), Append(members, names[j]),
                          key, jdx + 1, results, names, eq)
             ELSE CvInner(valid, members, key, jdx + 1, results, names, eq)

\* bench.py:82-94: the outer loop from position idx on; gives sets.
RECURSIVE CvOuter(_, _, _, _, _, _)
CvOuter(valid, ss, idx, results, names, eq) ==
    IF idx > Len(valid) THEN ss
    ELSE LET key == valid[idx]
         IN  IF IsNone(key)
             THEN CvOuter(valid, ss, idx + 1, results, names, eq)
             ELSE LET r == CvInner(valid, <<names[key]>>, key, idx + 1,
                                   results, names, eq)
                  IN  CvOuter(r[1], DictSet(ss, key, r[2]), idx + 1,
                              results, names, eq)

\* bench.py:31-95: check_values(scripts, setup, eq, vname).
check_values(ss, eq) ==
    [ sets |-> CvOuter(CvValid(ss, 0), <<>>, 1, CvResults(ss), CvNames(ss), eq),
      results |-> CvResults(ss),
      invalid |-> CvInvalid(ss, 0) ]

\* bench.py:182: the check passes when there is exactly one set.
ValuesMatch(st) == Cardinality(DOMAIN st) = 1

\* list.sort() of the samples: ascending.
RECURSIVE InsertSample(_, _)
InsertSample(sorted, x) ==
    IF sorted = <<>> THEN <<x>>
    ELSE IF x < Head(sorted) THEN <<x>> \o sorted
    ELSE <<Head(sorted)>> \o InsertSample(Tail(sorted), x)

RECURSIVE SortSamples(_)
SortSamples(result) ==
    IF result = <<>> THEN <<>>
    ELSE InsertSample(SortSamples(SubSeq(result, 1, Len(result) - 1)),
                      result[Len(result)])

RECURSIVE SumSeq(_)
SumSeq(q) == IF q = <<>> THEN 0 ELSE Head(q) + SumSeq(Tail(q))

\* bench.py:215-235: the row of an entry from its samples.  mean and med are
\* exact fractions <<numerator, denominator>>.
RowNoSort(name, result) ==
    LET mid == Len(result) \div 2
    IN  [ name |-> name,
          min |-> result[1],
          mean |-> <<SumSeq(result), Len(result)>>,
          med |-> IF Len(result) % 2 = 0
                  THEN <<result[mid + 1] + result[mid], 2>>
                  ELSE <<result[mid + 1], 1>>,
          max |-> result[Len(result)] ]

Row(name, result) ==
    LET sorted == SortSamples(result)
        mid == Len(sorted) \div 2
    IN  [ name |-> name,
          min |-> sorted[1],
          mean |-> <<SumSeq(sorted), Len(sorted)>>,
          med |-> IF Len(sorted) % 2 = 0
                  THEN <<sorted[mid + 1] + sorted[mid], 2>>
                  ELSE <<sorted[mid + 1], 1>>,
          max |-> sorted[Len(sorted)] ]

\* bench.py:238: printout.sort(key=lambda x: x[0]), a stable sort.
RECURSIVE InsertByKey(_, _)
InsertByKey(sorted, x) ==
    IF sorted = <<>> THEN <<x>>
    ELSE IF x.key < Head(sorted).key THEN <<x>> \o sorted
    ELSE <<Head(sorted)>> \o InsertByKey(Tail(sorted), x)

SortPrintoutNot(po) == po

RECURSIVE SortPrintout(_)
SortPrintout(po) ==
    IF po = <<>> THEN <<>>
    ELSE InsertByKey(SortPrintout(SubSeq(po, 1, Len(po) - 1)), po[Len(po)])

\* bench.py:211: errored[name] = traceback.format_exc()
RecordErrorLast(err, name, detail) == << <<name, detail>> >>

RecordError(err, name, detail) == Append(err, <<name, detail>>)

\* The mappings run() may get from the payloads of their entries.
ScriptsOver(payloads) ==
    UNION { { [i \in 1..n |-> [ name |-> BenchNames[i],
                                 defined |-> f[i].defined,
                                 val |-> f[i].val,
                                 err |-> f[i].err,
                                 samples |-> f[i].samples ]] :
              f \in [1..n -> payloads] } : n \in 1..MaxEntries }

InitBenchRest ==
    /\ nosort \in BOOLEAN
    /\ bpc = "start"
    /\ sets = <<>>
    /\ outputs = <<>>
    /\ invalid = <<>>
    /\ bi = 1
    /\ printout = <<>>
    /\ errored = <<>>
    /\ out = <<>>
    /\ errout = <<>>
    /\ berror = "none"
    /\ IdleSimple
    /\ IdleImport
    /\ IdleTests
    /\ IdleTtest

\* Inputs that vary what the fragments leave in the checked variable.
InitBenchCheck ==
    /\ repeat = 1
    /\ eqfn \in EqPreds \cup {"none"}
    /\ scripts \in ScriptsOver(
          { [defined |-> TRUE, val |-> v, err |-> e[1], samples |-> e[2]] :
              v \in CheckedValues,
              e \in { <<"none", <<1>> >>, <<"ValueError", <<>> >> } }
          \cup
          { [defined |-> FALSE, val |-> NoneVal, err |-> e[1], samples |-> e[2]] :
              e \in { <<"none", <<1>> >>, <<"ValueError", <<>> >> } })
    /\ InitBenchRest

\* Inputs that vary what timing the fragments gives.
InitBenchTime ==
    /\ repeat \in Repeats
    /\ eqfn \in {"eq", "none"}
    /\ scripts \in ScriptsOver(
          { [defined |-> TRUE, val |-> 1, err |-> "none", samples |-> q] :
              q \in [1..repeat -> 1..MaxSample] }
          \cup
          { [defined |-> TRUE, val |-> 1, err |-> e, samples |-> <<>>] :
              e \in TimingErrors })
    /\ InitBenchRest

\* bench.py:169-206: the equivalence check, then the table header.
BenchCheck ==
    /\ bpc = "start"
    /\ IF eqfn # "none"
       THEN LET cv == check_values(scripts, eqfn)
            IN  /\ sets' = cv.sets
                /\ outputs' = cv.results
                /\ invalid' = cv.invalid
                /\ IF ValuesMatch(cv.sets)
                   THEN /\ bpc' = "timing"
                        /\ UNCHANGED berror
                   ELSE /\ bpc' = "raised"
                        /\ berror' = "ValueError"
       ELSE /\ bpc' = "timing"
            /\ UNCHANGED <<sets, outputs, invalid, berror>>
    /\ UNCHANGED <<scripts, eqfn, nosort, repeat, bi, printout, errored, out,
                   errout>>
    /\ UNCHANGED <<simpleVars, importVars, testsVars, ttestVars>>

\* bench.py:207-236: one iteration of the timing loop.
BenchTime ==
    /\ bpc = "timing"
    /\ bi <= Len(scripts)
    /\ LET e == scripts[bi]
       IN  IF e.err # "none"
           THEN /\ errored' = RecordError(errored, e.name, e.err)
                /\ UNCHANGED <<printout, out>>
           ELSE LET row == Row(e.name, e.samples)
                IN  IF nosort
                    THEN /\ out' = Append(out, [row |-> row, end |-> "\n"])
                         /\ UNCHANGED <<printout, errored>>
                    ELSE /\ printout' = Append(printout,
                                               [key |-> row.min, row |-> row])
                         /\ out' = Append(out, [row |-> row, end |-> "\r"])
                         /\ UNCHANGED errored
    /\ bi' = bi + 1
    /\ UNCHANGED <<scripts, eqfn, nosort, repeat, bpc, sets, outputs, invalid,
                   errout, berror>>
    /\ UNCHANGED <<simpleVars, importVars, testsVars, ttestVars>>

RECURSIVE RowsOf(_)
RowsOf(po) ==
    IF po = <<>> THEN <<>>
    ELSE <<[row |-> Head(po).row, end |-> "\n"]>> \o RowsOf(Tail(po))

\* bench.py:237-245: the sorted table and the errored report.
BenchReport ==
    /\ bpc = "timing"
    /\ bi > Len(scripts)
    /\ IF ~nosort
       THEN /\ printout' = SortPrintout(printout)
            /\ out' = out \o RowsOf(SortPrintout(printout))
       ELSE UNCHANGED <<printout, out>>
    /\ errout' = errored
    /\ bpc' = "done"
    /\ UNCHANGED <<scripts, eqfn, nosort, repeat, sets, outputs, invalid, bi,
                   errored, berror>>
    /\ UNCHANGED <<simpleVars, importVars, testsVars, ttestVars>>

NextBench ==
    \/ BenchCheck
    \/ BenchTime
    \/ BenchReport

SpecBenchCheck == InitBenchCheck /\ [][NextBench]_vars

SpecBenchTime == InitBenchTime /\ [][NextBench]_vars

MaxRepeat == 4    \* samples of the one entry whose statistics are checked

\* Durations the one entry may measure.
StatSamples == {1, 2, 3, 4}

\* Inputs that vary the samples of a single entry, in every order.
InitBenchStats ==
    /\ repeat \in 1..MaxRepeat
    /\ eqfn = "none"
    /\ scripts \in { << [ name |-> BenchNames[1], defined |-> TRUE, val |-> 1,
                          err |-> "none", samples |-> q ] >> :
                      q \in [1..repeat -> StatSamples] }
    /\ InitBenchRest

SpecBenchStats == InitBenchStats /\ [][NextBench]_vars

\* ------------------------------------------------ bench.pairwise_ttest
\* p-values and significances are counted in hundredths.
\* bench.py:258: the default significance, 0.05.
DefaultSignificance == 5

\* bench.py:141: the 1 on the diagonal of pmatrix.
POne == 100

\* p-values scipy.stats.ttest_ind may give a pair.
PValues == {1, 5, 9}

\* Values of args.ttest: --ttest alone, or --ttest 0.09.
TtestArgs == { <<>>, <<9>> }

\* Timings kept for an entry (args.repeat = 2), of means 1, 2 and 4.
TtestTimings == { <<1, 1>>, <<1, 3>>, <<3, 5>> }

\* The pairs <<i, j>> of entry indices with i < j < n.
Pairs(n) == { pr \in (0..(n - 1)) \X (0..(n - 1)) : pr[1] < pr[2] }

\* bench.py:139, 140, 148: the '...' cell.
Marker == [mark |-> TRUE, num |-> 0, den |-> 0]

\* bench.py:136-139, 145-148: the cell of a pair, from its p-value and the
\* means of the column's and the row's entry: the ratio
\* means[j] / means[i] as an exact fraction, or the marker.
TtestCellAtOrBelow(p, sig, mcol, mrow) ==
    IF p <= sig
    THEN [mark |-> FALSE, num |-> mcol[1] * mrow[2], den |-> mrow[1] * mcol[2]]
    ELSE Marker

TtestCell(p, sig, mcol, mrow) ==
    IF p < sig
    THEN [mark |-> FALSE, num |-> mcol[1] * mrow[2], den |-> mrow[1] * mcol[2]]
    ELSE Marker

\* bench.py:256-259: the significance run() passes on.
TtestSignificance(arg) == IF arg = <<>> THEN DefaultSignificance ELSE arg[1]

\* bench.py:130-143: row i of pmatrix: the copied p-values, the diagonal,
\* the p-values of the new t-tests.
PRow(i, n) ==
    [c \in 1..n |-> IF c - 1 < i THEN pmatrix[c][i + 1]
                    ELSE IF c - 1 = i THEN POne
                    ELSE pval[<<i, c - 1>>]]

InitTtest ==
    /\ tresults \in
          UNION { { [i \in 1..n |-> [name |-> BenchNames[i], timings |-> f[i]]] :
                    f \in [1..n -> TtestTimings] } : n \in 0..MaxEntries }
    /\ ttestarg \in TtestArgs
    /\ pval \in [Pairs(Len(tresults)) -> PValues]
    /\ significance = 0
    /\ means = <<>>
    /\ pmatrix = <<>>
    /\ cells = <<>>
    /\ tcalls = <<>>
    /\ qi = 0
    /\ qpc = "call"
    /\ IdleSimple
    /\ IdleImport
    /\ IdleTests
    /\ IdleBench

\* bench.py:256-259, 114-128: run() calls pairwise_ttest, which takes names,
\* data and means and prints the header; names[0] of an empty mapping
\* raises IndexError.
TtestCall ==
    /\ qpc = "call"
    /\ significance' = TtestSignificance(ttestarg)
    /\ means' = [i \in 1..Len(tresults) |->
                    <<SumSeq(tresults[i].timings), Len(tresults[i].timings)>>]
    /\ qi' = 0
    /\ qpc' = IF tresults = <<>> THEN "IndexError" ELSE "rows"
    /\ UNCHANGED <<tresults, ttestarg, pval, pmatrix, cells, tcalls>>
    /\ UNCHANGED <<simpleVars, importVars, testsVars, benchVars>>

\* bench.py:130-149: one iteration of `for i in range(len(data))`.
TtestRow ==
    /\ qpc = "rows"
    /\ qi < Len(tresults)
    /\ LET n == Len(tresults)
           prow == PRow(qi, n)
       IN  /\ pmatrix' = Append(pmatrix, prow)
           /\ cells' = Append(cells,
                 [c \in 1..n |->
                     IF c - 1 = qi THEN Marker
                     ELSE TtestCell(prow[c], significance, means[c], means[qi + 1])])
           /\ tcalls' = tcalls \o [k \in 1..(n - 1 - qi) |-> <<qi, qi + k>>]
    /\ qi' = qi + 1
    /\ UNCHANGED <<tresults, ttestarg, pval, significance, means, qpc>>
    /\ UNCHANGED <<simpleVars, importVars, testsVars, benchVars>>

\* bench.py:130, 149: the loop is over, pairwise_ttest returns.
TtestReturn ==
    /\ qpc = "rows"
    /\ qi >= Len(tresults)
    /\ qpc' = "done"
    /\ UNCHANGED <<tresults, ttestarg, pval, significance, means, pmatrix,
                   cells, tcalls, qi>>
    /\ UNCHANGED <<simpleVars, importVars, testsVars, benchVars>>

NextTtest ==
    \/ TtestCall
    \/ TtestRow
    \/ TtestReturn

SpecTtest == InitTtest /\ [][NextTtest]_vars

\* ------------------------------------------------- claims about simple.py
\* The target run() is working on, its filter as the command line gave it.
CurrentArg == args.tests[ti]

FilterGiven == Contains(CurrentArg, ":")

\* k carries the prefix, written out character by character.
HasPrefix(k) ==
    /\ Len(k) >= Len(args.prefix)
    /\ \A i \in 1..Len(args.prefix) : k[i] = args.prefix[i]

AfterPrefix(k) == [i \in 1..(Len(k) - Len(args.prefix)) |-> k[i + Len(args.prefix)]]

\* The members the command line selects in the current unit.
SelectedMembers ==
    { k \in SeqToSet(unit) :
        /\ HasPrefix(k)
        /\ FilterGiven => AfterPrefix(k) \in ParseTargets(CurrentArg) }

Occurrences(s, x) == Cardinality({i \in 1..Len(s) : s[i] = x})

\* C1: when run() executes tests (not --list) and returns, ntried is the
\* number of members whose name starts with the prefix and, when a filter was
\* given, whose name after the prefix is in the filter.
C1_AttemptCount ==
    (spc = "returned" /\ ~args.list) => ntried = Cardinality(SelectedMembers)

\* C1 witness: a run that returned with a filter that kept some prefixed
\* members and dropped others.
C1_Witness ==
    /\ spc = "returned"
    /\ ~args.list
    /\ FilterGiven
    /\ ntried >= 1
    /\ \E k \in SeqToSet(unit) : HasPrefix(k) /\ k \notin SelectedMembers

\* C2: with runall, run() never propagates a test's exception, calls every
\* selected test exactly once and nothing else, and returns with
\* npass = ntried - len(failed).
C2_RunAll ==
    (args.all /\ ~args.list) =>
        /\ spc # "raised"
        /\ spc = "returned" =>
              /\ \A k \in SeqToSet(unit) :
                    Occurrences(invoked, k) = IF k \in SelectedMembers THEN 1 ELSE 0
              /\ npass = ntried - Len(failed)

\* C2 witness: a run-all call returned after a test raised and a later one
\* was still called and passed.
C2_Witness ==
    /\ args.all
    /\ spc = "returned"
    /\ Len(invoked) >= 2
    /\ body[invoked[1]] = "raise"
    /\ body[invoked[Len(invoked)]] = "pass"
    /\ failed # <<>>
    /\ npass >= 1

\* The prefixed members that raise, and the position of a member in the
\* unit's declaration order.
FailingPrefixed == { k \in SeqToSet(unit) : HasPrefix(k) /\ body[k] = "raise" }

DeclIndex(k) == CHOOSE i \in 1..Len(unit) : unit[i] = k

RECURSIVE SumTried(_)
SumTried(rs) == IF rs = <<>> THEN 0 ELSE Head(rs)[2] + SumTried(Tail(rs))

RECURSIVE SumFailed(_)
SumFailed(rs) == IF rs = <<>> THEN 0 ELSE Len(Head(rs)[1]) + SumFailed(Tail(rs))

\* C9: when every target was run and no failure propagated, the process exits
\* normally, and with more than one target the printed grand total is
\* attempted = the sum of the per-unit attempt counts and
\* passed = attempted - the number of failed names.
C9_NormalExit ==
    spc = "exit" =>
        /\ exit = "normal"
        /\ Len(args.tests) > 1 =>
              total = <<SumTried(runs) - SumFailed(runs), SumTried(runs)>>

\* The part of C9 the code keeps: whenever anything was attempted.
C9_WhenAttempted ==
    (spc = "exit" /\ SumTried(runs) > 0) =>
        /\ exit = "normal"
        /\ Len(args.tests) > 1 =>
              total = <<SumTried(runs) - SumFailed(runs), SumTried(runs)>>

\* ------------------------------------------------- claims about _import
\* C8: for a file or directory target, the directory is on sys.path only
\* during the one import attempt: when _import goes on to the plain import,
\* returns or raises, sys.path is the sequence it was before the call.
C8_PathRestored ==
    /\ ipc = "attempt" => sys_path = <<dname>> \o path0
    /\ ipc \in {"fallback", "done"} => sys_path = path0

\* C8 witness: _import ended with an error that is no ImportError, for a
\* path target whose directory already was on sys.path.
C8_Witness ==
    /\ ipc = "done"
    /\ fs \in {"file", "dir"}
    /\ iresult \in {"Error", "ValueError"}
    /\ \E i \in 1..Len(path0) : path0[i] = dname
    /\ Len(path0) = 2 /\ path0[1] # dname

\* ------------------------------------------------- claims about Tests.all
\* The registered tests not flagged skip, in registration order.
RECURSIVE NotSkipped(_)
NotSkipped(cs) ==
    IF cs = <<>> THEN <<>>
    ELSE IF Head(cs).skip THEN NotSkipped(Tail(cs))
    ELSE <<Head(cs)>> \o NotSkipped(Tail(cs))

Raising(calls) ==
    {i \in 1..Len(calls) : Choice(calls[i][1]).outcome = "raise"}

\* C7: all() calls the tests not flagged skip and no other, each with empty
\* arguments, in registration order; an exception ends it at once without
\* --all and never with --all; when it completes, passed is the number of
\* called tests that did not raise and total the number of non-skipped tests.
C7_AllRuns ==
    LET expect == NotSkipped(choices)
    IN  /\ Len(tinvoked) <= Len(expect)
        /\ \A i \in 1..Len(tinvoked) :
              tinvoked[i] = <<expect[i].name, <<>> >>
        /\ \A i \in Raising(tinvoked) :
              IF allflag THEN tpc # "raised"
              ELSE tpc = "raised" /\ i = Len(tinvoked)
        /\ tpc = "raised" => Raising(tinvoked) # {}
        /\ tpc = "done" =>
              /\ Len(tinvoked) = Len(expect)
              /\ summary = <<Len(tinvoked) - Cardinality(Raising(tinvoked)),
                             Len(expect)>>

\* C7 witness: with --all, all() completed past a registered skip test and a
\* raising test that was followed by a passing one.
C7_Witness ==
    /\ tpc = "done"
    /\ allflag
    /\ \E i \in 1..Len(choices) : choices[i].skip
    /\ Len(tinvoked) >= 2
    /\ 1 \in Raising(tinvoked)
    /\ summary[1] >= 1

\* C7 second witness state: without --all the exception propagated while a
\* non-skipped test was still to come.
C7_RaisedEarly ==
    /\ tpc = "raised"
    /\ Len(tinvoked) < Len(NotSkipped(choices))

\* ------------------------------------------------- claims about bench.py
\* The equivalence check has run (eq was given).
Checked == bpc # "start" /\ eqfn # "none"

NumSets == Cardinality(DOMAIN sets)

\* How often name occurs in the sets, and in a list of names.
InSets(name) ==
    Cardinality({ <<k, i>> \in (DOMAIN sets) \X (1..MaxEntries + 1) :
                    i <= Len(sets[k]) /\ sets[k][i] = name })

EntryNamed(name) ==
    scripts[CHOOSE i \in 1..Len(scripts) : scripts[i].name = name]

\* C4 as stated: with eq given, run() raises ValueError exactly when
\* check_values yields more than one set; otherwise it goes on to timing.
C4_ErrorIffSeveralSets ==
    Checked => (IF NumSets > 1
                THEN bpc = "raised" /\ berror = "ValueError"
                ELSE bpc # "raised" /\ berror = "none")

\* What the code does instead: it raises unless there is exactly one set,
\* so also when no entry defines the checked variable.
C4_ErrorUnlessOneSet ==
    Checked => (IF NumSets # 1
                THEN bpc = "raised" /\ berror = "ValueError"
                ELSE bpc # "raised" /\ berror = "none")

\* C5: check_values puts every entry name in exactly one place: an entry that
\* defines the variable in exactly one set, one that does not in the
\* unchecked list and in no set; a set is keyed by the index of its first
\* member and every member's value is eq to that entry's result; entries
\* that all set the same value make one set of all names.
C5_Partition ==
    Checked =>
        /\ \A i \in 1..Len(scripts) :
              LET e == scripts[i]
              IN  IF e.defined
                  THEN InSets(e.name) = 1 /\ Occurrences(invalid, e.name) = 0
                  ELSE InSets(e.name) = 0 /\ Occurrences(invalid, e.name) = 1
        /\ \A k \in DOMAIN sets :
              /\ k \in 0..(Len(scripts) - 1)
              /\ scripts[k + 1].defined
              /\ outputs[k] = scripts[k + 1].val
              /\ sets[k][1] = scripts[k + 1].name
              /\ \A i \in 1..Len(sets[k]) :
                    EqApply(eqfn, outputs[k], EntryNamed(sets[k][i]).val)
        /\ (\A i \in 1..Len(scripts) :
               scripts[i].defined /\ scripts[i].val = scripts[1].val)
           => /\ DOMAIN sets = {0}
              /\ sets[0] = [i \in 1..Len(scripts) |-> scripts[i].name]

\* C5 witness: the check left an entry unchecked, grouped two entries in one
\* set and, under the tolerance predicate, kept apart two entries whose
\* values are within tolerance of each other.
C5_Witness ==
    /\ Checked
    /\ eqfn = "close"
    /\ NumSets = 2
    /\ \E k \in DOMAIN sets : Len(sets[k]) = 2
    /\ \E i, j \in 1..Len(scripts) :
          /\ scripts[i].val = 2 /\ scripts[j].val = 3
          /\ \E k \in DOMAIN sets : sets[k] = <<scripts[j].name>>

\* C5 second witness state: an entry without the variable is reported
\* unchecked beside a set of two.
C5_Unchecked ==
    /\ Checked
    /\ Len(invalid) = 1
    /\ \E k \in DOMAIN sets : Len(sets[k]) = 2

\* The table as displayed: the rows that end a line.  A row written with a
\* carriage return is overwritten by the next one.
IsLine(r) == r.end = "\n"

Displayed == SelectSeq(out, IsLine)

RowsNamed(rows, name) == Cardinality({i \in 1..Len(rows) : rows[i].row.name = name})

ErrorsNamed(errs, name) == Cardinality({i \in 1..Len(errs) : errs[i][1] = name})

\* C6: an entry whose fragment raises while timed is in the errored report
\* with its error, every other entry is timed and reported: after the timing
\* loop each entry is in exactly one of the results or errored, and the
\* finished run shows each entry in exactly one of the table or the report.
C6_ErroredApart ==
    /\ (bpc = "timing" /\ bi > Len(scripts)) =>
          \A i \in 1..Len(scripts) :
              LET e == scripts[i]
                  timed == IF nosort THEN out ELSE printout
              IN  IF e.err # "none"
                  THEN /\ RowsNamed(timed, e.name) = 0
                       /\ ErrorsNamed(errored, e.name) = 1
                       /\ \E j \in 1..Len(errored) : errored[j] = <<e.name, e.err>>
                  ELSE /\ RowsNamed(timed, e.name) = 1
                       /\ ErrorsNamed(errored, e.name) = 0
    /\ bpc = "done" =>
          \A i \in 1..Len(scripts) :
              LET e == scripts[i]
              IN  IF e.err # "none"
                  THEN /\ RowsNamed(Displayed, e.name) = 0
                       /\ ErrorsNamed(errout, e.name) = 1
                       /\ \E j \in 1..Len(errout) : errout[j] = <<e.name, e.err>>
                  ELSE /\ RowsNamed(Displayed, e.name) = 1
                       /\ ErrorsNamed(errout, e.name) = 0

\* C6 witness: a finished run whose first and last entries raised while an
\* entry between them was timed and reported.
C6_Witness ==
    /\ bpc = "done"
    /\ Len(scripts) = 3
    /\ scripts[1].err # "none"
    /\ scripts[2].err = "none"
    /\ scripts[3].err # "none"
    /\ Len(errout) = 2
    /\ Len(Displayed) = 1

DeclPos(name) == CHOOSE i \in 1..Len(scripts) : scripts[i].name = name

\* The names of the entries that were timed without an error, in
\* declaration order.
RECURSIVE TimedNames(_)
TimedNames(ss) ==
    IF ss = <<>> THEN <<>>
    ELSE (IF Head(ss).err = "none" THEN <<Head(ss).name>> ELSE <<>>)
         \o TimedNames(Tail(ss))

IsMinOf(m, q) ==
    /\ \E i \in 1..Len(q) : q[i] = m
    /\ \A i \in 1..Len(q) : m <= q[i]

\* C10: the finished table lists every successfully timed entry exactly once,
\* with its smallest sample as min: in declaration order under nosort,
\* otherwise in ascending order of min, entries of equal min in declaration
\* order.
C10_ReportOrder ==
    bpc = "done" =>
        LET D == Displayed
        IN  /\ Len(D) = Len(TimedNames(scripts))
            /\ \A i \in 1..Len(scripts) :
                  scripts[i].err = "none" => RowsNamed(D, scripts[i].name) = 1
            /\ \A i \in 1..Len(D) :
                  IsMinOf(D[i].row.min, EntryNamed(D[i].row.name).samples)
            /\ IF nosort
               THEN \A i \in 1..Len(D) : D[i].row.name = TimedNames(scripts)[i]
               ELSE \A i, j \in 1..Len(D) :
                       i < j =>
                          \/ D[i].row.min < D[j].row.min
                          \/ /\ D[i].row.min = D[j].row.min
                             /\ DeclPos(D[i].row.name) < DeclPos(D[j].row.name)

\* C10 witness: a sorted table of three rows in which the sort moved a later
\* entry forward and two entries of equal min kept their order.
C10_Witness ==
    /\ bpc = "done"
    /\ ~nosort
    /\ Len(Displayed) = 3
    /\ \E i, j \in 1..3 :
          i < j /\ DeclPos(Displayed[i].row.name) > DeclPos(Displayed[j].row.name)
    /\ \E i, j \in 1..3 : i < j /\ Displayed[i].row.min = Displayed[j].row.min

\* C10 second witness state: under nosort a table of three rows whose mins
\* are not ascending.
C10_Unsorted ==
    /\ bpc = "done"
    /\ nosort
    /\ Len(Displayed) = 3
    /\ Displayed[1].row.min > Displayed[2].row.min

\* ------------------------------------------ claims about the statistics
\* x is the k-th smallest of the samples q, counted with repetitions.
IsKthSmallest(x, q, k) ==
    /\ \E i \in 1..Len(q) : q[i] = x
    /\ Cardinality({i \in 1..Len(q) : q[i] < x}) < k
    /\ Cardinality({i \in 1..Len(q) : q[i] <= x}) >= k

IsMaxOf(m, q) ==
    /\ \E i \in 1..Len(q) : q[i] = m
    /\ \A i \in 1..Len(q) : q[i] <= m

RECURSIVE Total(_, _)
Total(q, n) == IF n = 0 THEN 0 ELSE q[n] + Total(q, n - 1)

\* The fraction f = <<numerator, denominator>> has the value num / den.
FracIs(f, num, den) == f[2] > 0 /\ f[1] * den = num * f[2]

\* C11: the row of an entry reports min = the smallest sample, max = the
\* largest, mean = sum / count and median = the middle sorted sample (odd
\* count) or the average of the two middle ones (even count), whatever the
\* order the samples were measured in; 1, 2, 3, 4 in any order give
\* min 1, max 4, mean 2.5, median 2.5.
C11_Statistics ==
    bpc = "done" =>
        \A r \in 1..Len(Displayed) :
            LET row == Displayed[r].row
                q == EntryNamed(row.name).samples
                n == Len(q)
            IN  /\ IsMinOf(row.min, q)
                /\ IsMaxOf(row.max, q)
                /\ FracIs(row.mean, Total(q, n), n)
                /\ IF n % 2 = 1
                   THEN \E m \in SeqToSet(q) :
                           /\ IsKthSmallest(m, q, (n + 1) \div 2)
                           /\ FracIs(row.med, m, 1)
                   ELSE \E a, b \in SeqToSet(q) :
                           /\ IsKthSmallest(a, q, n \div 2)
                           /\ IsKthSmallest(b, q, n \div 2 + 1)
                           /\ FracIs(row.med, a + b, 2)
                /\ (n = 4 /\ SeqToSet(q) = {1, 2, 3, 4}) =>
                      /\ row.min = 1
                      /\ row.max = 4
                      /\ FracIs(row.mean, 5, 2)
                      /\ FracIs(row.med, 5, 2)

\* C11 witness: the samples 3, 1, 4, 2, measured out of order, reported
\* with min 1, max 4 and median 5/2.
C11_Witness ==
    /\ bpc = "done"
    /\ Len(scripts) = 1
    /\ scripts[1].samples = <<3, 1, 4, 2>>
    /\ Len(Displayed) = 1
    /\ Displayed[1].row.min = 1
    /\ Displayed[1].row.max = 4
    /\ Displayed[1].row.med = <<5, 2>>

\* C11 second witness state: an odd count with a repeated sample.
C11_OddCount ==
    /\ bpc = "done"
    /\ Len(scripts) = 1
    /\ scripts[1].samples = <<4, 2, 2>>
    /\ Len(Displayed) = 1
    /\ Displayed[1].row.med = <<2, 1>>

\* ------------------------------------------ claims about pairwise_ttest
\* The p-value of the pair of entries i and j (indices from 0, i # j).
PairP(i, j) == IF i < j THEN pval[<<i, j>>] ELSE pval[<<j, i>>]

TCalls(pr) == Cardinality({k \in 1..Len(tcalls) : tcalls[k] = pr})

\* What the cells of a finished matrix show for the pairs: every pair is
\* compared once; a cell is the marker when the pair's p-value is at or
\* above the threshold and a ratio of the two means otherwise.
PairsComparedOnce ==
    /\ \A pr \in Pairs(Len(tresults)) : TCalls(pr) = 1
    /\ \A k \in 1..Len(tcalls) : tcalls[k] \in Pairs(Len(tresults))

\* C12 as stated: every pair is compared once; the matrix is lower
\* triangular: row i has cells for the entries up to i only; the cell of a
\* pair is the marker at or above the threshold and the ratio of the two
\* means otherwise, and the same whichever entry is the row.
C12_LowerTriangular ==
    qpc = "done" =>
        /\ PairsComparedOnce
        /\ Len(cells) = Len(tresults)
        /\ \A r \in 1..Len(cells) : Len(cells[r]) <= r
        /\ \A r \in 1..Len(cells) : \A c \in 1..Len(cells[r]) :
              r # c =>
                 /\ cells[r][c].mark = (PairP(r - 1, c - 1) >= significance)
                 /\ c <= Len(cells) /\ r <= Len(cells[c]) =>
                       /\ cells[c][r].mark = cells[r][c].mark
                       /\ cells[c][r].num * cells[r][c].den
                             = cells[r][c].num * cells[c][r].den

\* C12 amended: for a non-empty mapping every pair is compared once and the
\* matrix is a full square keyed by entry index: the diagonal shows the
\* marker, the cell of row i and column j the marker when the pair's
\* p-value is at or above the threshold and otherwise mean of j / mean of i,
\* so whether a pair shows the marker does not depend on the row, and the
\* ratios of the two cells of a pair are reciprocal.  An empty mapping
\* raises IndexError before anything is compared.
C12_FullMatrix ==
    /\ qpc = "IndexError" <=> (qpc # "call" /\ tresults = <<>>)
    /\ qpc = "IndexError" => tcalls = <<>> /\ cells = <<>>
    /\ qpc = "done" =>
          LET n == Len(tresults)
              sum(i) == Total(tresults[i].timings, Len(tresults[i].timings))
              cnt(i) == Len(tresults[i].timings)
          IN  /\ PairsComparedOnce
              /\ significance = IF ttestarg = <<>> THEN 5 ELSE ttestarg[1]
              /\ Len(cells) = n
              /\ \A r \in 1..n :
                    /\ Len(cells[r]) = n
                    /\ cells[r][r].mark
              /\ \A r, c \in 1..n :
                    r # c =>
                       /\ cells[r][c].mark = (PairP(r - 1, c - 1) >= significance)
                       /\ cells[r][c].mark = cells[c][r].mark
                       /\ ~cells[r][c].mark =>
                             /\ cells[r][c].den > 0
                             \* the ratio is (sum c / cnt c) / (sum r / cnt r)
                             /\ cells[r][c].num * sum(r) * cnt(c)
                                   = cells[r][c].den * sum(c) * cnt(r)
                             \* and the mirrored cell shows its reciprocal
                             /\ cells[r][c].num * cells[c][r].num
                                   = cells[r][c].den * cells[c][r].den

\* C12 witness: a finished matrix of three entries with a pair at the
\* threshold (marker in both cells) and a significant pair of different
\* means, whose two cells show different ratios.
C12_Witness ==
    /\ qpc = "done"
    /\ Len(tresults) = 3
    /\ \E pr \in Pairs(3) :
          /\ pval[pr] = significance
          /\ cells[pr[1] + 1][pr[2] + 1].mark
          /\ cells[pr[2] + 1][pr[1] + 1].mark
    /\ \E pr \in Pairs(3) :
          /\ pval[pr] < significance
          /\ ~cells[pr[1] + 1][pr[2] + 1].mark
          /\ cells[pr[1] + 1][pr[2] + 1].num * cells[pr[2] + 1][pr[1] + 1].den
                # cells[pr[2] + 1][pr[1] + 1].num * cells[pr[1] + 1][pr[2] + 1].den

\* --------------------------------------------- claims about Tests.__call__
\* C13: a call with a callable registers the test under the given name, or
\* the callable's own name when none is given, and adds it to _alltests
\* exactly when the constructed test is not flagged skip; a call with a
\* first argument that is not callable returns a registration callable and
\* does not raise.
C13_Registration ==
    /\ tpc # "NameError"
    /\ (lastcall.item = "class" /\ tpc = "register") =>
          LET e == choices[Len(choices)]
          IN  /\ e.name = IF lastcall.name # "" THEN lastcall.name
                          ELSE lastcall.itemorname
              /\ Occurrences(alltests, e.name) = IF e.skip THEN 0 ELSE 1

\* The part of C13 the code keeps: the registration of a callable.
C13_CallableRegisters ==
    (lastcall.item = "class" /\ tpc = "register") =>
        LET e == choices[Len(choices)]
        IN  /\ e.name = IF lastcall.name # "" THEN lastcall.name
                        ELSE lastcall.itemorname
            /\ Occurrences(alltests, e.name) = IF e.skip THEN 0 ELSE 1

\* What the code does with a first argument that is not callable: it raises
\* NameError and registers nothing.
C13_NameError ==
    lastcall.item = "name" <=> tpc = "NameError"

====
